---- MODULE Spec2Model ----
(***************************************************************************)
(* Model of the mesh operations of geometry/meshop.cpp: clip (six plane    *)
(* passes followed by vertex welding), removeNonManifoldEdges and refine   *)
(* (longest-edge splitting driven by an edge map and a heap).              *)
(*                                                                         *)
(* Indices are 0-based as in the C++ code; a std::vector is a sequence and *)
(* element i of vector v is v[i + 1].  Coordinates are exact rationals     *)
(* <<n, d>> in lowest terms with d > 0, so that midpoints and plane        *)
(* intersections are computed, not assumed.                                *)
(***************************************************************************)
EXTENDS Integers, Sequences, FiniteSets, TLC

VARIABLES
    pc,             \* position of the running call: "idle", "clip", "loop", "split1", "split2"
    mesh,           \* *pmesh: the mesh under construction, and the returned mesh once idle
    omesh,          \* the argument of the running (or last) call
    lastOp,         \* the operation that returned last: "none", "clip", "nm", "refine"
    calls,          \* number of calls made so far
    extents,        \* clip: the box argument
    clipped,        \* clip: the ClipTriangle list
    planeI,         \* clip: the loop counter i over the six planes
    reclip,         \* history: the argument mesh is the result of a clip by the same box
    maxFacesCount,  \* refine: the argument
    edgeMap,        \* refine: EdgeMap, [map, heap]
    edge,           \* refine: the copy returned by pop_top_edge
    iterMesh,       \* history: the mesh when the current loop iteration began
    pops            \* history: number of edges popped by the running refine

vars == <<pc, mesh, omesh, lastOp, calls, extents, clipped, planeI, reclip,
          maxFacesCount, edgeMap, edge, iterMesh, pops>>

-----------------------------------------------------------------------------
(* Bounds of the model *)

\* longest face list of an input of removeNonManifoldEdges
NMMaxFaces == 5
\* longest face list of an input of refine
RefMaxFaces == 2
\* largest maxFacesCount argument
MaxFacesArg == 5
\* longest face list of an input of clip
ClipMaxFaces == 2
\* number of calls in a sequence of operations
MaxCalls == 3

-----------------------------------------------------------------------------
(* Exact rational arithmetic *)

Abs(x) == IF x < 0 THEN -x ELSE x

Min(x, y) == IF x < y THEN x ELSE y

Max(x, y) == IF x < y THEN y ELSE x

RECURSIVE GCD(_, _)
GCD(x, y) == IF y = 0 THEN x ELSE GCD(y, x % y)

\* the rational n/d (d # 0) in lowest terms with a positive denominator
Rat(n, d) ==
    LET g == GCD(Abs(n), Abs(d))
        s == IF d < 0 THEN -1 ELSE 1
    IN  <<(s * n) \div g, (s * d) \div g>>

I(n) == <<n, 1>>

RAdd(p, q) == Rat(p[1] * q[2] + q[1] * p[2], p[2] * q[2])

RSub(p, q) == Rat(p[1] * q[2] - q[1] * p[2], p[2] * q[2])

RMul(p, q) == Rat(p[1] * q[1], p[2] * q[2])

RDiv(p, q) == Rat(p[1] * q[2], p[2] * q[1])

RNeg(p) == <<-p[1], p[2]>>

RLess(p, q) == p[1] * q[2] < q[1] * p[2]

RLeq(p, q) == p[1] * q[2] <= q[1] * p[2]

Half == <<1, 2>>

\* a point with integer coordinates
P3(x, y, z) == <<I(x), I(y), I(z)>>

P2(u, v) == <<I(u), I(v)>>

\* componentwise operations of ublas vectors (any dimension)
VAdd(p, q) == [i \in DOMAIN p |-> RAdd(p[i], q[i])]

VSub(p, q) == [i \in DOMAIN p |-> RSub(p[i], q[i])]

VScale(p, r) == [i \in DOMAIN p |-> RMul(p[i], r)]

RECURSIVE RSum(_)
RSum(s) == IF s = <<>> THEN I(0) ELSE RAdd(Head(s), RSum(Tail(s)))

inner_prod(p, q) == RSum([i \in DOMAIN p |-> RMul(p[i], q[i])])

-----------------------------------------------------------------------------
(* Mesh and Face *)

Face(a, b, c, ta, tb, tc) ==
    [a |-> a, b |-> b, c |-> c, ta |-> ta, tb |-> tb, tc |-> tc]

EmptyMesh == [vertices |-> <<>>, tCoords |-> <<>>, faces |-> <<>>]

\* Mesh::addFace(a, b, c, ta, tb, tc): append one face
addFace(m, a, b, c, ta, tb, tc) ==
    [m EXCEPT !.faces = Append(@, Face(a, b, c, ta, tb, tc))]

\* Mesh::addFace(a, b, c): the texture indices take their default, 0
addFace3(m, a, b, c) == addFace(m, a, b, c, 0, 0, 0)

\* the three vertex indices of a face
Corners(f) == <<f.a, f.b, f.c>>

-----------------------------------------------------------------------------
(* removeNonManifoldEdges *)

\* faulty variant of NMEdgeKey: the pair is kept in the order given
NMEdgeKeyAsGiven(v1, v2) == <<v1, v2>>

\* removeNonManifoldEdges::EdgeKey(v1, v2): the canonical (min, max) pair
NMEdgeKey(v1, v2) == <<Min(v1, v2), Max(v1, v2)>>

\* edgeKeys[3] of a face, in the order AB, BC, CA
FaceEdgeKeys(f) ==
    <<NMEdgeKey(f.a, f.b), NMEdgeKey(f.b, f.c), NMEdgeKey(f.c, f.a)>>

\* one pass of the inner loop: face fi is added to the face set of key
NMInsert(em, key, fi) ==
    IF key \in DOMAIN em
      THEN [em EXCEPT ![key] = @ \cup {fi}]
      ELSE em @@ (key :> {fi})

\* the first loop: edgeMap after faces fi .. size-1 were counted into em
RECURSIVE NMCount(_, _, _)
NMCount(em, fs, fi) ==
    IF fi >= Len(fs) THEN em
    ELSE LET keys == FaceEdgeKeys(fs[fi + 1])
             e1 == NMInsert(em, keys[1], fi)
             e2 == NMInsert(e1, keys[2], fi)
             e3 == NMInsert(e2, keys[3], fi)
         IN  NMCount(e3, fs, fi + 1)

\* faulty variant of NMTooMany: the threshold is off by one
NMTooManyOff(faceSet) == Cardinality(faceSet) > 3

\* facesIndices.size() > 2: an edge with more than two incident faces
NMTooMany(faceSet) == Cardinality(faceSet) > 2

\* the second loop: the faces incident with a non-manifold edge
FacesToOmit(em) ==
    UNION {em[k] : k \in {x \in DOMAIN em : NMTooMany(em[x])}}

\* the third loop: the faces of o that are not omitted are added again, in order
RECURSIVE NMRebuild(_, _, _, _)
NMRebuild(m, o, omit, fi) ==
    IF fi >= Len(o.faces) THEN m
    ELSE LET face == o.faces[fi + 1]
         IN  NMRebuild(IF fi \notin omit
                         THEN addFace(m, face.a, face.b, face.c,
                                      face.ta, face.tb, face.tc)
                         ELSE m,
                       o, omit, fi + 1)

removeNonManifoldEdges(o) ==
    LET em   == NMCount(<<>>, o.faces, 0)
        omit == FacesToOmit(em)
    IN  NMRebuild([o EXCEPT !.faces = <<>>], o, omit, 0)

-----------------------------------------------------------------------------
(* refine: Edge, EdgeMap, splitEdge *)

\* mesh.tCoords.size() - 1 of a mesh without texture coordinates: the
\* unsigned subtraction wraps around to the largest value of size_t.  The
\* model keeps the largest integer it can represent in its place: what
\* matters is that it is above every index of a sequence.
IndexMax == 2147483647

\* refine::EdgeKey(v1, v2): the canonical (min, max) pair
EdgeKey(v1, v2) == <<Min(v1, v2), Max(v1, v2)>>

\* Edge(pv1, pv2, plength): no incident face yet; et1 and et2 are not set
Edge(pv1, pv2, plength) ==
    [v1 |-> Min(pv1, pv2), v2 |-> Max(pv1, pv2), f1 |-> -1, f2 |-> -1,
     et1 |-> "unset", et2 |-> "unset", length |-> plength]

\* faulty variant of EdgeAddFace: a face running from the larger to the
\* smaller index is not recorded
EdgeAddFaceForwardOnly(e, pv1, pv2, fid, type) ==
    IF pv1 < pv2
      THEN [e EXCEPT !.f1 = fid, !.et1 = type]
      ELSE e

\* faulty variant of EdgeAddFace: the edge type is stored with the other slot
EdgeAddFaceTypeCrossed(e, pv1, pv2, fid, type) ==
    IF pv1 < pv2
      THEN [e EXCEPT !.f1 = fid, !.et2 = type]
      ELSE [e EXCEPT !.f2 = fid, !.et1 = type]

\* Edge::addFace: the slot is chosen by the direction pv1 -> pv2
EdgeAddFace(e, pv1, pv2, fid, type) ==
    IF pv1 < pv2
      THEN [e EXCEPT !.f1 = fid, !.et1 = type]
      ELSE [e EXCEPT !.f2 = fid, !.et2 = type]

\* ublas::norm_2 of the difference, stored as float.  The model keeps the
\* squared norm: on the coordinates the bounds allow, squaring and the
\* rounding to float are strictly monotone, so every comparison of two
\* lengths has the same outcome.
EdgeLength(p, q) == inner_prod(VSub(p, q), VSub(p, q))

\* EdgeMap::compareEdgePtr and Edge::operator<
compareEdgePtr(x, y) == RLess(x.length, y.length)

EmptyEdgeMap == [map |-> <<>>, heap |-> {}]

\* EdgeMap::addFaceEdge.  The heap holds pointers to the records of the map;
\* a pointer is modelled by the key of its record.
addFaceEdge(em, pv1, pv2, fid, type, length) ==
    LET key == EdgeKey(pv1, pv2)
    IN  IF key \in DOMAIN em.map
          THEN [em EXCEPT !.map[key] = EdgeAddFace(@, pv1, pv2, fid, type)]
          ELSE [map  |-> em.map @@
                         (key :> EdgeAddFace(Edge(pv1, pv2, length),
                                             pv1, pv2, fid, type)),
                heap |-> em.heap \cup {key}]

\* EdgeMap::addFaceEdges
addFaceEdges(em, m, fid) ==
    LET f  == m.faces[fid + 1]
        va == m.vertices[f.a + 1]
        vb == m.vertices[f.b + 1]
        vc == m.vertices[f.c + 1]
        e1 == addFaceEdge(em, f.a, f.b, fid, "AB", EdgeLength(va, vb))
        e2 == addFaceEdge(e1, f.b, f.c, fid, "BC", EdgeLength(vb, vc))
    IN  addFaceEdge(e2, f.c, f.a, fid, "CA", EdgeLength(vc, va))

\* the records heap[0] may point to: std::push_heap and std::pop_heap keep a
\* record at the front that compares less than no other record
HeapTops(em) ==
    {k \in em.heap : \A j \in em.heap : ~compareEdgePtr(em.map[k], em.map[j])}

\* EdgeMap::size
EdgeMapSize(em) == Cardinality(em.heap)

\* EdgeMap::pop_top_edge with heap[0] pointing to the record of key top:
\* the copy returned and the structure left
pop_top_edge(em, top) ==
    LET e == em.map[top]
        k == EdgeKey(e.v1, e.v2)
    IN  [edge    |-> e,
         edgeMap |-> [map  |-> [x \in DOMAIN em.map \ {k} |-> em.map[x]],
                      heap |-> em.heap \ {top}]]

\* faulty variant of LastTCoord: the size itself, one past the last index
LastTCoordOff(m) == Len(m.tCoords)

\* mesh.tCoords.size() - 1
LastTCoord(m) == IF Len(m.tCoords) = 0 THEN IndexMax ELSE Len(m.tCoords) - 1

\* the texture coordinate pushed by splitEdge: the mean of two coordinates
WithTcMiddle(m, t1, t2) ==
    IF Len(m.tCoords) > 0
      THEN [m EXCEPT !.tCoords =
                Append(@, VScale(VAdd(m.tCoords[t1 + 1], m.tCoords[t2 + 1]), Half))]
      ELSE m

\* faulty variant of SplitNewFace: the appended half is wound the other way
SplitNewFaceFlipped(face, type, vid, tl) ==
    CASE type = "AB" -> Face(face.c, face.b, vid, face.tc, face.tb, tl)
      [] type = "BC" -> Face(face.a, face.c, vid, face.ta, face.tc, tl)
      [] type = "CA" -> Face(face.b, face.a, vid, face.tb, face.ta, tl)

\* the face splitEdge appends: the far endpoint of the edge, the opposite
\* corner and the new vertex vid, with texture index tl for vid
SplitNewFace(face, type, vid, tl) ==
    CASE type = "AB" -> Face(face.b, face.c, vid, face.tb, face.tc, tl)
      [] type = "BC" -> Face(face.c, face.a, vid, face.tc, face.ta, tl)
      [] type = "CA" -> Face(face.a, face.b, vid, face.ta, face.tb, tl)

\* the face splitEdge leaves in slot fid: one corner is replaced by vid
SplitOldFace(face, type, vid, tl) ==
    CASE type = "AB" -> [face EXCEPT !.b = vid, !.tb = tl]
      [] type = "BC" -> [face EXCEPT !.c = vid, !.tc = tl]
      [] type = "CA" -> [face EXCEPT !.a = vid, !.ta = tl]

\* the lambda splitEdge(fid, type, vid): the mesh and the edge map it leaves
splitEdge(m, em, fid, type, vid) ==
    LET face == m.faces[fid + 1]
        m1 == CASE type = "AB" -> WithTcMiddle(m, face.ta, face.tb)
                [] type = "BC" -> WithTcMiddle(m, face.tb, face.tc)
                [] type = "CA" -> WithTcMiddle(m, face.tc, face.ta)
        tl == LastTCoord(m1)
        nf == SplitNewFace(face, type, vid, tl)
        m2 == addFace(m1, nf.a, nf.b, nf.c, nf.ta, nf.tb, nf.tc)
        m3 == [m2 EXCEPT !.faces[fid + 1] = SplitOldFace(face, type, vid, tl)]
        e1 == addFaceEdges(em, m3, fid)
        e2 == addFaceEdges(e1, m3, Len(m3.faces) - 1)
    IN  [mesh |-> m3, edgeMap |-> e2]

\* the first loop of refine: the edges of faces i .. size-1 are added
RECURSIVE AddAllFaceEdges(_, _, _)
AddAllFaceEdges(em, m, i) ==
    IF i >= Len(m.faces) THEN em
    ELSE AddAllFaceEdges(addFaceEdges(em, m, i), m, i + 1)

\* the midpoint pushed by the loop body
Middle(m, e) ==
    VScale(VAdd(m.vertices[e.v1 + 1], m.vertices[e.v2 + 1]), Half)

\* faulty variant of LoopCond: the face count is compared with <=
LoopCondOff(m, n, em) == Len(m.faces) <= n /\ EdgeMapSize(em) > 0

\* the condition of the while loop
LoopCond(m, n, em) == Len(m.faces) < n /\ EdgeMapSize(em) > 0

NoEdge == Edge(0, 0, I(0))

-----------------------------------------------------------------------------
(* clip: the planes, the plane passes (triclip.hpp) and the welding *)

ClipPlane(a, b, c, d) == [normal |-> P3(a, b, c), d |-> d]

\* planes[0..5] as clip builds them from the box
ClipPlanes(e) ==
    <<ClipPlane( 1,  0,  0, e.ll[1]),
      ClipPlane(-1,  0,  0, RNeg(e.ur[1])),
      ClipPlane( 0,  1,  0, e.ll[2]),
      ClipPlane( 0, -1,  0, RNeg(e.ur[2])),
      ClipPlane( 0,  0,  1, e.ll[3]),
      ClipPlane( 0,  0, -1, RNeg(e.ur[3]))>>

\* the ClipTriangle list built from the faces of the argument mesh
ClipTriangles(o) ==
    [i \in 1..Len(o.faces) |->
        <<o.vertices[o.faces[i].a + 1],
          o.vertices[o.faces[i].b + 1],
          o.vertices[o.faces[i].c + 1]>>]

\* n.x + d; the side with n.x + d >= 0 is retained
signedDistance(point, plane) == RAdd(inner_prod(point, plane.normal), plane.d)

Inside(point, plane) == RLeq(I(0), signedDistance(point, plane))

\* the point where the segment p0 p1 crosses the plane:
\* t = -(n.p0 + d) / (n.(p1 - p0))
Intersection(p0, p1, plane) ==
    LET t == RDiv(RNeg(signedDistance(p0, plane)),
                  inner_prod(VSub(p1, p0), plane.normal))
    IN  VAdd(p0, VScale(VSub(p1, p0), t))

Next3(i) == (i % 3) + 1

Prev3(i) == ((i + 1) % 3) + 1

\* one triangle against one plane: 0, 1 or 2 triangles
clipTriangle(tri, plane) ==
    LET in == {i \in 1..3 : Inside(tri[i], plane)}
    IN  CASE Cardinality(in) = 3 -> <<tri>>
          [] Cardinality(in) = 0 -> <<>>
          [] Cardinality(in) = 1 ->
                LET i == CHOOSE x \in in : TRUE
                IN  <<<<tri[i],
                        Intersection(tri[i], tri[Next3(i)], plane),
                        Intersection(tri[i], tri[Prev3(i)], plane)>>>>
          [] Cardinality(in) = 2 ->
                LET o  == CHOOSE x \in (1..3) \ in : TRUE
                    xn == Intersection(tri[Next3(o)], tri[o], plane)
                    xp == Intersection(tri[Prev3(o)], tri[o], plane)
                IN  <<<<xn, tri[Next3(o)], tri[Prev3(o)]>>,
                      <<xn, tri[Prev3(o)], xp>>>>

\* clipTriangles(list, plane): every triangle of the list against the plane
RECURSIVE clipTriangles(_, _)
clipTriangles(list, plane) ==
    IF list = <<>> THEN <<>>
    ELSE clipTriangle(Head(list), plane) \o clipTriangles(Tail(list), plane)

\* one pass of the inner welding loop: corner pos is looked up or inserted in
\* pMap and, when its index is new, pushed to the vertices
WeldCorner(w, pos) ==
    LET inserted == pos \notin DOMAIN w.pMap
        pMap1    == IF inserted THEN w.pMap @@ (pos :> w.next) ELSE w.pMap
        next1    == IF inserted THEN w.next + 1 ELSE w.next
        idx      == pMap1[pos]
        mesh1    == IF idx >= Len(w.mesh.vertices)
                      THEN [w.mesh EXCEPT !.vertices = Append(@, pos)]
                      ELSE w.mesh
    IN  [pMap |-> pMap1, next |-> next1, mesh |-> mesh1, indices |-> Append(w.indices, idx)]

\* one pass of the outer welding loop: the face is added unless two of its
\* indices are equal
WeldTriangle(w, triangle) ==
    LET w1 == WeldCorner([w EXCEPT !.indices = <<>>], triangle[1])
        w2 == WeldCorner(w1, triangle[2])
        w3 == WeldCorner(w2, triangle[3])
        ix == w3.indices
    IN  IF ix[1] # ix[2] /\ ix[2] # ix[3] /\ ix[1] # ix[3]
          THEN [w3 EXCEPT !.mesh = addFace3(@, ix[1], ix[2], ix[3])]
          ELSE w3

RECURSIVE WeldAll(_, _)
WeldAll(w, list) ==
    IF list = <<>> THEN w
    ELSE WeldAll(WeldTriangle(w, Head(list)), Tail(list))

\* the welding loop of clip: the mesh built from the clipped triangles
Weld(list) ==
    WeldAll([pMap |-> <<>>, next |-> 0, mesh |-> EmptyMesh, indices |-> <<>>],
            list).mesh

NoExtents == [ll |-> P3(0, 0, 0), ur |-> P3(0, 0, 0)]

-----------------------------------------------------------------------------
(* The calls, step by step *)

\* removeNonManifoldEdges(mesh), as one step
CallRemoveNonManifoldEdges ==
    /\ pc = "idle"
    /\ omesh' = mesh
    /\ mesh' = removeNonManifoldEdges(mesh)
    /\ lastOp' = "nm"
    /\ calls' = calls + 1
    /\ UNCHANGED <<pc, extents, clipped, planeI, reclip, maxFacesCount,
                   edgeMap, edge, iterMesh, pops>>

\* clip(mesh, e) up to the loop over the planes
ClipCall(e) ==
    /\ pc = "idle"
    /\ omesh' = mesh
    /\ mesh' = EmptyMesh
    /\ extents' = e
    /\ clipped' = ClipTriangles(mesh)
    /\ planeI' = 0
    /\ reclip' = (lastOp = "clip" /\ extents = e)
    /\ pc' = "clip"
    /\ calls' = calls + 1
    /\ UNCHANGED <<lastOp, maxFacesCount, edgeMap, edge, iterMesh, pops>>

\* one pass of the loop over the planes
ClipPass ==
    /\ pc = "clip"
    /\ planeI < 6
    /\ clipped' = clipTriangles(clipped, ClipPlanes(extents)[planeI + 1])
    /\ planeI' = planeI + 1
    /\ UNCHANGED <<pc, mesh, omesh, lastOp, calls, extents, reclip,
                   maxFacesCount, edgeMap, edge, iterMesh, pops>>

\* the welding loop and the return of clip
ClipWeld ==
    /\ pc = "clip"
    /\ planeI = 6
    /\ mesh' = Weld(clipped)
    /\ pc' = "idle"
    /\ lastOp' = "clip"
    /\ UNCHANGED <<omesh, calls, extents, clipped, planeI, reclip,
                   maxFacesCount, edgeMap, edge, iterMesh, pops>>

\* refine(mesh, n) up to the while loop: the copy and the edges of all faces
RefineCall(n) ==
    /\ pc = "idle"
    /\ omesh' = mesh
    /\ maxFacesCount' = n
    /\ edgeMap' = AddAllFaceEdges(EmptyEdgeMap, mesh, 0)
    /\ edge' = NoEdge
    /\ iterMesh' = mesh
    /\ pops' = 0
    /\ pc' = "loop"
    /\ calls' = calls + 1
    /\ UNCHANGED <<mesh, lastOp, extents, clipped, planeI, reclip>>

\* the loop body up to the first split: an edge is popped, its midpoint pushed
RefinePop ==
    /\ pc = "loop"
    /\ LoopCond(mesh, maxFacesCount, edgeMap)
    /\ \E top \in HeapTops(edgeMap) :
          LET r == pop_top_edge(edgeMap, top)
          IN  /\ edge' = r.edge
              /\ edgeMap' = r.edgeMap
              /\ mesh' = [mesh EXCEPT !.vertices = Append(@, Middle(mesh, r.edge))]
    /\ iterMesh' = mesh
    /\ pops' = pops + 1
    /\ pc' = "split1"
    /\ UNCHANGED <<omesh, lastOp, calls, extents, clipped, planeI, reclip,
                   maxFacesCount>>

\* if (edge.f1 >= 0) splitEdge(edge.f1, edge.et1, vertices.size() - 1)
RefineSplitFirst ==
    /\ pc = "split1"
    /\ IF edge.f1 >= 0
         THEN LET r == splitEdge(mesh, edgeMap, edge.f1, edge.et1,
                                 Len(mesh.vertices) - 1)
              IN  mesh' = r.mesh /\ edgeMap' = r.edgeMap
         ELSE UNCHANGED <<mesh, edgeMap>>
    /\ pc' = "split2"
    /\ UNCHANGED <<omesh, lastOp, calls, extents, clipped, planeI, reclip,
                   maxFacesCount, edge, iterMesh, pops>>

\* if (edge.f2 >= 0) splitEdge(edge.f2, edge.et2, vertices.size() - 1)
RefineSplitSecond ==
    /\ pc = "split2"
    /\ IF edge.f2 >= 0
         THEN LET r == splitEdge(mesh, edgeMap, edge.f2, edge.et2,
                                 Len(mesh.vertices) - 1)
              IN  mesh' = r.mesh /\ edgeMap' = r.edgeMap
         ELSE UNCHANGED <<mesh, edgeMap>>
    /\ pc' = "loop"
    /\ UNCHANGED <<omesh, lastOp, calls, extents, clipped, planeI, reclip,
                   maxFacesCount, edge, iterMesh, pops>>

\* the loop condition is false: refine returns pmesh
RefineReturn ==
    /\ pc = "loop"
    /\ ~LoopCond(mesh, maxFacesCount, edgeMap)
    /\ pc' = "idle"
    /\ lastOp' = "refine"
    /\ UNCHANGED <<mesh, omesh, calls, extents, clipped, planeI, reclip,
                   maxFacesCount, edgeMap, edge, iterMesh, pops>>

-----------------------------------------------------------------------------
(* Inputs *)

\* the sequences over S of length at most n
SeqsUpTo(S, n) == UNION {[1..k -> S] : k \in 0..n}

\* a face over vertex indices a, b, c of a mesh with three texture coordinates
F3(a, b, c) == Face(a, b, c, a % 3, b % 3, c % 3)

TCoordChoices == {<<>>, <<P2(0, 0), P2(2, 0), P2(0, 2)>>}

\* removeNonManifoldEdges: five vertices; three faces around the edge {0,1},
\* faces away from it, and a face with a repeated corner
NMVertices == <<P3(0, 0, 0), P3(2, 0, 0), P3(1, 1, 0), P3(1, -1, 0), P3(1, 0, 1)>>

NMFacePool ==
    {F3(0, 1, 2), F3(1, 0, 3), F3(0, 1, 4), F3(2, 3, 4), F3(1, 1, 0), F3(4, 2, 0)}

NMInputs ==
    {[vertices |-> NMVertices, tCoords |-> tc, faces |-> fs] :
        tc \in TCoordChoices, fs \in SeqsUpTo(NMFacePool, NMMaxFaces)}

\* refine: four vertices in three layouts; faces with three distinct corners,
\* wound consistently or not, and rotations of one triangle
RefLayouts ==
    {<<P3(0, 0, 0), P3(2, 0, 0), P3(1, 1, 0), P3(1, -1, 0)>>,
     <<P3(0, 0, 0), P3(1, 0, 0), P3(0, 2, 0), P3(0, 0, 1)>>,
     <<P3(0, 0, 0), P3(2, 0, 0), P3(0, 2, 0), P3(2, 2, 0)>>}

RefFacePool ==
    {F3(0, 1, 2), F3(1, 2, 0), F3(2, 0, 1), F3(1, 0, 3), F3(0, 1, 3), F3(2, 1, 3)}

RefInputs ==
    {[vertices |-> vs, tCoords |-> tc, faces |-> fs] :
        vs \in RefLayouts, tc \in TCoordChoices,
        fs \in SeqsUpTo(RefFacePool, RefMaxFaces)}

\* clip: six vertices; triangles inside, across and outside the planes
ClipVertices ==
    <<P3(0, 0, 0), P3(1, 0, 0), P3(0, 1, 0), P3(-1, 0, 0), P3(-1, -1, -1), P3(0, 0, 1)>>

ClipFacePool ==
    {F3(0, 1, 2), F3(3, 1, 2), F3(3, 4, 5), F3(1, 2, 5), F3(4, 1, 2)}

ClipInputs ==
    {[vertices |-> ClipVertices, tCoords |-> <<>>, faces |-> fs] :
        fs \in SeqsUpTo(ClipFacePool, ClipMaxFaces)}

\* the boxes: corners with coordinates 0 or 1, ll <= ur componentwise
BoxCorners == [1..3 -> {0, 1}]

Boxes ==
    {[ll |-> P3(c[1][1], c[1][2], c[1][3]), ur |-> P3(c[2][1], c[2][2], c[2][3])] :
        c \in {x \in BoxCorners \X BoxCorners : \A i \in 1..3 : x[1][i] <= x[2][i]}}

\* sequences of operations: a triangle without texture coordinates, two
\* triangles sharing an edge and three triangles around one edge
SeqInputs ==
    {[vertices |-> NMVertices, tCoords |-> <<>>, faces |-> <<F3(0, 1, 2)>>],
     [vertices |-> NMVertices, tCoords |-> <<P2(0, 0), P2(2, 0), P2(0, 2)>>,
      faces |-> <<F3(0, 1, 2), F3(1, 0, 3)>>],
     [vertices |-> NMVertices, tCoords |-> <<P2(0, 0), P2(2, 0), P2(0, 2)>>,
      faces |-> <<F3(0, 1, 2), F3(1, 0, 3), F3(0, 1, 4)>>]}

\* sequences of operations: the box that is the origin and the unit box
SeqBoxes ==
    {[ll |-> P3(0, 0, 0), ur |-> P3(0, 0, 0)],
     [ll |-> P3(0, 0, 0), ur |-> P3(1, 1, 1)]}

-----------------------------------------------------------------------------
(* Specifications *)

InitRest ==
    /\ pc = "idle"
    /\ omesh = EmptyMesh
    /\ lastOp = "none"
    /\ calls = 0
    /\ extents = NoExtents
    /\ clipped = <<>>
    /\ planeI = 0
    /\ reclip = FALSE
    /\ maxFacesCount = 0
    /\ edgeMap = EmptyEdgeMap
    /\ edge = NoEdge
    /\ iterMesh = EmptyMesh
    /\ pops = 0

\* removeNonManifoldEdges alone
InitNM == mesh \in NMInputs /\ InitRest

NextNM == calls < 1 /\ CallRemoveNonManifoldEdges

SpecNM == InitNM /\ [][NextNM]_vars

\* refine alone
InitRefine == mesh \in RefInputs /\ InitRest

NextRefine ==
    \/ calls < 1 /\ \E n \in 0..MaxFacesArg : RefineCall(n)
    \/ RefinePop
    \/ RefineSplitFirst
    \/ RefineSplitSecond
    \/ RefineReturn

SpecRefine == InitRefine /\ [][NextRefine]_vars

\* clip alone, and clip applied to its own result
InitClip == mesh \in ClipInputs /\ InitRest

NextClip ==
    \/ calls < 2 /\ \E e \in Boxes : ClipCall(e)
    \/ ClipPass
    \/ ClipWeld

SpecClip == InitClip /\ [][NextClip]_vars

\* the three operations in any order
Init == mesh \in SeqInputs /\ InitRest

Next ==
    \/ calls < MaxCalls /\ CallRemoveNonManifoldEdges
    \/ calls < MaxCalls /\ \E n \in 0..MaxFacesArg : RefineCall(n)
    \/ RefinePop
    \/ RefineSplitFirst
    \/ RefineSplitSecond
    \/ RefineReturn
    \/ calls < MaxCalls /\ \E e \in SeqBoxes : ClipCall(e)
    \/ ClipPass
    \/ ClipWeld

Spec == Init /\ [][Next]_vars

-----------------------------------------------------------------------------
(* Properties of removeNonManifoldEdges *)

\* the undirected edges of a face, each the set of its endpoints
UEdges(f) == {{f.a, f.b}, {f.b, f.c}, {f.c, f.a}}

\* the indices (from 1) of the faces of m incident to the undirected edge e
Incident(m, e) == {i \in 1..Len(m.faces) : e \in UEdges(m.faces[i])}

\* the face touches an edge with three or more incident faces of m
OnNonManifoldEdge(m, f) ==
    \E e \in UEdges(f) : Cardinality(Incident(m, e)) >= 3

Returned(op) == pc = "idle" /\ lastOp = op

\* C1: in the mesh returned by removeNonManifoldEdges every undirected edge
\* of an output face is incident to at most 2 distinct output faces.
C1_ManifoldOutput ==
    Returned("nm") =>
        \A i \in 1..Len(mesh.faces) :
            \A e \in UEdges(mesh.faces[i]) :
                Cardinality(Incident(mesh, e)) <= 2

\* faces around a non-manifold edge were removed and other faces are left
C1_Witness ==
    /\ Returned("nm")
    /\ \E i \in 1..Len(omesh.faces) : OnNonManifoldEdge(omesh, omesh.faces[i])
    /\ Len(mesh.faces) >= 2

\* C2: removeNonManifoldEdges returns the vertices and tCoords of its
\* argument unchanged, and as faces exactly the subsequence (same order,
\* same vertex and texture indices) of the argument's faces none of whose
\* edges is incident to 3 or more distinct faces of the argument.
C2_ExactSubsequence ==
    Returned("nm") =>
        /\ mesh.vertices = omesh.vertices
        /\ mesh.tCoords = omesh.tCoords
        /\ mesh.faces =
              SelectSeq(omesh.faces, LAMBDA f : ~OnNonManifoldEdge(omesh, f))

\* three faces around one edge are removed from between two faces that stay
C2_Witness ==
    /\ Returned("nm")
    /\ Len(omesh.faces) = 5
    /\ Len(mesh.faces) = 2
    /\ mesh.tCoords # <<>>
    /\ mesh.faces[1] = omesh.faces[1]
    /\ mesh.faces[2] = omesh.faces[5]
    /\ mesh.faces[1] # mesh.faces[2]

-----------------------------------------------------------------------------
(* Properties of refine *)

\* the length of the undirected edge {u, v} in mesh m, as EdgeLength gives it
LengthIn(m, u, v) == EdgeLength(m.vertices[u + 1], m.vertices[v + 1])

\* the directed edges of a face: AB, BC, CA
DEdges(f) == {<<f.a, f.b>>, <<f.b, f.c>>, <<f.c, f.a>>}

\* the indices (from 1) of the faces of the mesh at the start of the
\* iteration that have the popped edge as one of their three edges
PoppedIncident == Incident(iterMesh, {edge.v1, edge.v2})

\* the index of the vertex pushed by the current iteration
NewVertex == Len(iterMesh.vertices)

\* an iteration of the loop of refine has just ended
IterationDone == pc = "loop" /\ pops > 0

\* C3: for an argument with F0 >= 1 faces, refine returns the faces and
\* vertices of its argument when F0 >= maxFacesCount, and otherwise a mesh
\* with at least maxFacesCount and at most maxFacesCount + 1 faces.
C3_FaceCount ==
    (Returned("refine") /\ Len(omesh.faces) >= 1) =>
        IF Len(omesh.faces) >= maxFacesCount
          THEN mesh.faces = omesh.faces /\ mesh.vertices = omesh.vertices
          ELSE /\ maxFacesCount <= Len(mesh.faces)
               /\ Len(mesh.faces) <= maxFacesCount + 1

\* the target is overshot by one face
C3_Witness ==
    /\ Returned("refine")
    /\ Len(omesh.faces) >= 1
    /\ Len(omesh.faces) < maxFacesCount
    /\ Len(mesh.faces) = maxFacesCount + 1
    /\ pops >= 2

\* C4: the edge popped in an iteration of refine is a longest edge of the
\* mesh at that moment: no edge of any face is strictly longer; and a single
\* triangle refined with maxFacesCount = 2 is split exactly once, which gives
\* 2 faces and one more vertex.
C4_LongestEdgePopped ==
    /\ pc = "split1" =>
          \A i \in 1..Len(iterMesh.faces) :
              \A d \in DEdges(iterMesh.faces[i]) :
                  ~RLess(edge.length, LengthIn(iterMesh, d[1], d[2]))
    /\ (Returned("refine") /\ Len(omesh.faces) = 1 /\ maxFacesCount = 2) =>
          /\ pops = 1
          /\ Len(mesh.faces) = 2
          /\ Len(mesh.vertices) = Len(omesh.vertices) + 1

\* C5: every face that has the popped edge {v1, v2} as one of its edges is
\* split in the same iteration with the same new vertex: the face count grows
\* by the number of those faces (2 for a shared edge, 1 for a boundary edge),
\* and afterwards no face contains the edge {v1, v2}.
C5_AllIncidentFacesSplit ==
    IterationDone =>
        /\ Len(mesh.faces) = Len(iterMesh.faces) + Cardinality(PoppedIncident)
        /\ \A i \in PoppedIncident :
              NewVertex \in {mesh.faces[i].a, mesh.faces[i].b, mesh.faces[i].c}
        /\ \A i \in 1..Len(mesh.faces) :
              {edge.v1, edge.v2} \notin UEdges(mesh.faces[i])

\* the rotations of a triple
Rotations(t) == {<<t[1], t[2], t[3]>>, <<t[2], t[3], t[1]>>, <<t[3], t[1], t[2]>>}

\* the triple t with corner v replaced by w
Replaced(t, v, w) == [i \in 1..3 |-> IF t[i] = v THEN w ELSE t[i]]

\* the faces the popped record names, as indices from 0, first slot first
SplitFaces ==
    (IF edge.f1 >= 0 THEN <<edge.f1>> ELSE <<>>) \o
    (IF edge.f2 >= 0 THEN <<edge.f2>> ELSE <<>>)

\* slot fid and appended face j hold the two halves of face fid as it was
\* when the iteration began: that face with v1, respectively v2, replaced by
\* the new vertex, in the winding order of the face
HalvesOf(fid, j) ==
    LET F  == Corners(iterMesh.faces[fid + 1])
        H1 == Replaced(F, edge.v1, NewVertex)
        H2 == Replaced(F, edge.v2, NewVertex)
        S  == Corners(mesh.faces[fid + 1])
        A  == Corners(mesh.faces[j])
    IN  \/ S \in Rotations(H1) /\ A \in Rotations(H2)
        \/ S \in Rotations(H2) /\ A \in Rotations(H1)

\* C9: one iteration of the loop appends exactly one vertex, the midpoint of
\* the popped edge; each face it splits is overwritten in its slot by one
\* half and the other half is appended as the last face, the halves in the
\* winding order of the face; every other face, every vertex and every
\* texture coordinate that existed is unchanged; the vertex count is the
\* initial count plus the number of edges popped.
C9_IterationFrame ==
    /\ pc = "split1" =>
          /\ mesh.faces = iterMesh.faces
          /\ mesh.tCoords = iterMesh.tCoords
    /\ pc \in {"split1", "split2", "loop"} /\ pops > 0 =>
          /\ mesh.vertices =
                Append(iterMesh.vertices,
                       VScale(VAdd(iterMesh.vertices[edge.v1 + 1],
                                   iterMesh.vertices[edge.v2 + 1]), Half))
          /\ SubSeq(mesh.tCoords, 1, Len(iterMesh.tCoords)) = iterMesh.tCoords
          /\ Len(mesh.vertices) = Len(omesh.vertices) + pops
    /\ pc = "split2" /\ edge.f1 >= 0 =>
          /\ Len(mesh.faces) = Len(iterMesh.faces) + 1
          /\ HalvesOf(edge.f1, Len(mesh.faces))
    /\ IterationDone =>
          /\ Len(mesh.faces) = Len(iterMesh.faces) + Len(SplitFaces)
          /\ \A k \in 1..Len(SplitFaces) :
                HalvesOf(SplitFaces[k], Len(iterMesh.faces) + k)
          /\ \A i \in 1..Len(iterMesh.faces) :
                (\A k \in 1..Len(SplitFaces) : SplitFaces[k] # i - 1) =>
                    mesh.faces[i] = iterMesh.faces[i]

\* an iteration that split two faces of a mesh with texture coordinates, and
\* left a third face alone
C9_Witness ==
    /\ IterationDone
    /\ edge.f1 >= 0
    /\ edge.f2 >= 0
    /\ mesh.tCoords # <<>>
    /\ Len(iterMesh.faces) >= 3

\* the number of iterations refine may need: max(0, maxFacesCount - F0)
IterationBound ==
    IF maxFacesCount > Len(omesh.faces)
      THEN maxFacesCount - Len(omesh.faces) ELSE 0

\* C10: refine terminates.  For an argument with at least one face the edge
\* structure is non-empty whenever the loop condition is evaluated, so the
\* loop stops only on the face count; the loop body can always run (there
\* is a record to pop and the faces it names exist); every iteration strictly
\* increases the face count; at most max(0, maxFacesCount - F0) iterations
\* are made and the target is reached; for an argument without faces refine
\* returns the mesh unchanged without an iteration.
C10_Terminates ==
    /\ (pc = "loop" /\ Len(omesh.faces) >= 1) => EdgeMapSize(edgeMap) > 0
    /\ (pc = "loop" /\ LoopCond(mesh, maxFacesCount, edgeMap)) =>
          HeapTops(edgeMap) # {}
    /\ pc \in {"split1", "split2"} =>
          /\ edge.f1 < Len(mesh.faces) /\ edge.f2 < Len(mesh.faces)
          /\ edge.f1 >= 0 \/ edge.f2 >= 0
    /\ IterationDone => Len(mesh.faces) > Len(iterMesh.faces)
    /\ pc # "idle" => pops <= IterationBound
    /\ (Returned("refine") /\ Len(omesh.faces) >= 1) =>
          /\ Len(mesh.faces) >= maxFacesCount
          /\ pops <= IterationBound
    /\ (Returned("refine") /\ Len(omesh.faces) = 0) =>
          mesh = omesh /\ pops = 0

\* a call that needed the largest number of iterations its bound allows
C10_Witness ==
    /\ Returned("refine")
    /\ Len(omesh.faces) >= 1
    /\ pops = IterationBound
    /\ pops >= 3

\* the endpoints of the local edge et of face f
LocalEdge(f, et) ==
    CASE et = "AB" -> {f.a, f.b}
      [] et = "BC" -> {f.b, f.c}
      [] et = "CA" -> {f.c, f.a}
      [] OTHER     -> {}

\* the slot (fid, et) of record r, when occupied, names a face of m whose
\* local edge et has the endpoints of r
SlotAccurate(m, r, fid, et) ==
    fid >= 0 =>
        /\ fid < Len(m.faces)
        /\ et \in {"AB", "BC", "CA"}
        /\ LocalEdge(m.faces[fid + 1], et) = {r.v1, r.v2}

\* C11: whenever the loop condition of refine is evaluated, the map and the
\* heap hold exactly the same records, one record per undirected edge key
\* (a record is stored under the key of its own endpoints), and every
\* occupied slot (f1, et1) or (f2, et2) of every record names a face that
\* exists in the mesh and whose local edge et1, respectively et2, has exactly
\* the endpoints {v1, v2} of the record.
C11_EdgeStructureAccurate ==
    pc = "loop" =>
        /\ edgeMap.heap = DOMAIN edgeMap.map
        /\ \A k \in DOMAIN edgeMap.map :
              LET r == edgeMap.map[k]
              IN  /\ k = EdgeKey(r.v1, r.v2)
                  /\ k = <<r.v1, r.v2>>
                  /\ SlotAccurate(mesh, r, r.f1, r.et1)
                  /\ SlotAccurate(mesh, r, r.f2, r.et2)

\* after two iterations a record has both slots occupied, one of them by a
\* face that a split appended
C11_Witness ==
    /\ pc = "loop"
    /\ pops >= 2
    /\ \E k \in DOMAIN edgeMap.map :
          LET r == edgeMap.map[k]
          IN  /\ r.f1 >= 0
              /\ r.f2 >= 0
              /\ r.f1 >= Len(omesh.faces) \/ r.f2 >= Len(omesh.faces)

-----------------------------------------------------------------------------
(* Properties of clip *)

\* C6: every vertex of the mesh clip returns lies in the box:
\* ll[i] <= v[i] <= ur[i] on each axis i.
C6_Containment ==
    Returned("clip") =>
        \A j \in 1..Len(mesh.vertices) : \A i \in 1..3 :
            /\ RLeq(extents.ll[i], mesh.vertices[j][i])
            /\ RLeq(mesh.vertices[j][i], extents.ur[i])

\* the set of vertex positions of a mesh
Positions(m) == {m.vertices[j] : j \in 1..Len(m.vertices)}

\* the faces of a mesh as triples of positions, with their multiplicity
PositionTriples(m) ==
    LET t(f) == <<m.vertices[f.a + 1], m.vertices[f.b + 1], m.vertices[f.c + 1]>>
        ts   == {t(m.faces[j]) : j \in 1..Len(m.faces)}
    IN  [x \in ts |-> Cardinality({j \in 1..Len(m.faces) : t(m.faces[j]) = x})]

\* C7: clip is idempotent: clipping the result of clip with the same box
\* returns a mesh with the same number of vertices, the same set of vertex
\* positions and the same faces as position triples.
C7_Idempotent ==
    (Returned("clip") /\ reclip) =>
        /\ Len(mesh.vertices) = Len(omesh.vertices)
        /\ Positions(mesh) = Positions(omesh)
        /\ PositionTriples(mesh) = PositionTriples(omesh)

-----------------------------------------------------------------------------
(* Properties of sequences of operations *)

\* the Mesh invariant: the vertex indices of every face are below
\* vertices.size() and, when there are texture coordinates, its texture
\* indices are below tCoords.size()
MeshInvariant(m) ==
    \A j \in 1..Len(m.faces) :
        LET f == m.faces[j]
        IN  /\ \A v \in {f.a, f.b, f.c} : v >= 0 /\ v < Len(m.vertices)
            /\ Len(m.tCoords) > 0 =>
                  \A t \in {f.ta, f.tb, f.tc} : t >= 0 /\ t < Len(m.tCoords)

\* C8: the Mesh invariant holds of the mesh after every operation of a
\* sequence of clip, removeNonManifoldEdges and refine calls, and after every
\* split step inside refine.
C8_MeshInvariantPreserved == MeshInvariant(mesh)

\* the second operation of a sequence is refine, called on the result of
\* removeNonManifoldEdges; it has split a face of a textured mesh
C8_Witness ==
    /\ calls = 2
    /\ lastOp = "nm"
    /\ pc = "loop"
    /\ pops >= 1
    /\ Len(mesh.tCoords) > 3
    /\ Len(mesh.faces) > Len(omesh.faces)

=============================================================================
